---- MODULE Spec2Model ----
(***************************************************************************)
(* Plate-geometry pipeline: plan + mesh + pedestals -> grid lines ->       *)
(* nodes, plates, members -> design groups.                                *)
(*                                                                         *)
(* Numbers.  Every length of the program (a JavaScript double, in metres)  *)
(* is an integer number of nanometres here, so the three tolerances of the *)
(* code are exact integers: 1e-9 m = 1, 1e-6 m = 1000, 1e-3 m = 1000000.   *)
(* Arithmetic is exact; binary floating-point representation error is not  *)
(* modelled.  TLC integers are 32 bit, so plans stay below 2 m.            *)
(* Array indices are 0-based as in the source; the TLA+ sequence element   *)
(* of index i is seq[i + 1].                                               *)
(***************************************************************************)
EXTENDS Integers, Sequences, FiniteSets, TLC

VARIABLES
    length, width, mesh, pedestalHeight, plateThickness, zOrientation, points,
    xLines, zLines,
    nodes, members, plates, plateIdByCoord,
    groupedPlates, shearPlates, twoWayShearPlates,
    exportText,
    dragId, newPointX, newPointZ,
    pc, cause

inputs == <<length, width, mesh, pedestalHeight, plateThickness, zOrientation, points>>
gridVars == <<xLines, zLines>>
meshVars == <<nodes, members, plates, plateIdByCoord>>
groupVars == <<groupedPlates, shearPlates, twoWayShearPlates>>
\* the export text as its lines: lines.join("\n") of lines without "\n"
exportVars == <<exportText>>
\* App's drag state and the two fields of the manual add form
uiVars == <<dragId, newPointX, newPointZ>>
vars == <<inputs, gridVars, meshVars, groupVars, exportVars, uiVars, pc, cause>>

(***************************************************************************)
(* Bounds and program constants                                            *)
(***************************************************************************)
\* longest pedestal list of an input snapshot
MaxPoints == 2
\* how many settings of an input snapshot differ from BaseSettings
MaxChanged == 1

\* longest pedestal list of a snapshot whose pipeline is run again
MaxRerunPoints == 1

\* uniqSorted's eps = 1e-6 (m), in nm
EPS == 1000
\* addDivisions' guard 1e-9 (m), in nm
DIV_TOL == 1
\* pedestal attachment threshold 1e-9 (m), in nm
HEIGHT_TOL == 1
\* round3's quantum: 1/1000 (m), in nm
MILLI == 1000000

(***************************************************************************)
(* Generic helpers: JavaScript Math and Array/Set semantics                *)
(***************************************************************************)
Min2(a, b) == IF a <= b THEN a ELSE b
Max2(a, b) == IF a >= b THEN a ELSE b
Abs(a) == IF a < 0 THEN -a ELSE a

\* Math.round(n / q) for an even q > 0: floor(n/q + 1/2), halves go up
JsRoundQuot(n, q) == (n + (q \div 2)) \div q

\* Math.round(a / b) for any b > 0
JsRoundDiv(a, b) == (2 * a + b) \div (2 * b)

FloorHalf_ceil(i, n) == -((-(2 * i - n)) \div 2)

\* Math.floor(i - n/2) and Math.ceil(i + n/2) for integers i, n
FloorHalf(i, n) == (2 * i - n) \div 2
CeilHalf_floor(i, n) == (2 * i + n) \div 2
CeilHalf(i, n) == -((-(2 * i + n)) \div 2)

Range(s) == {s[i] : i \in DOMAIN s}

\* insertion of a value into a JavaScript Set kept as its insertion order
SetAdd(s, v) == IF v \in Range(s) THEN s ELSE Append(s, v)

RECURSIVE SetAddAll(_, _)
SetAddAll(s, vs) ==
    IF vs = <<>> THEN s ELSE SetAddAll(SetAdd(s, Head(vs)), Tail(vs))

\* Array.from(new Set(arr)): first occurrences, in order
Dedup(arr) == SetAddAll(<<>>, arr)

RECURSIVE InsertSorted(_, _)
InsertSorted(s, v) ==
    IF s = <<>> THEN <<v>>
    ELSE IF v < Head(s) THEN <<v>> \o s
    ELSE <<Head(s)>> \o InsertSorted(Tail(s), v)

RECURSIVE SortNumFrom(_, _)
SortNumFrom(acc, arr) ==
    IF arr = <<>> THEN acc ELSE SortNumFrom(InsertSorted(acc, Head(arr)), Tail(arr))

\* arr.sort((x, y) => x - y)
SortNum(arr) == SortNumFrom(<<>>, arr)

(***************************************************************************)
(* utils                                                                   *)
(***************************************************************************)
clamp_noUpper(v, a, b) == Max2(v, a)

clamp(v, a, b) == Min2(Max2(v, a), b)

round3(n) == JsRoundQuot(n, MILLI) * MILLI

\* Math.round(x / eps) * eps
roundEps(x) == JsRoundQuot(x, EPS) * EPS

uniqSorted_noSort(arr) == Dedup([i \in DOMAIN arr |-> roundEps(arr[i])])

uniqSorted(arr) ==
    SortNum(Dedup([i \in DOMAIN arr |-> roundEps(arr[i])]))

RECURSIVE ClosestFrom_lastOnTies(_, _, _, _, _)
ClosestFrom_lastOnTies(arr, target, i, closest, closestIndex) ==
    IF i >= Len(arr) THEN closestIndex
    ELSE LET diff == Abs(arr[i + 1] - target)
         IN  IF closestIndex = -1 \/ diff <= closest
             THEN ClosestFrom_lastOnTies(arr, target, i + 1, diff, i)
             ELSE ClosestFrom_lastOnTies(arr, target, i + 1, closest, closestIndex)

RECURSIVE ClosestFrom(_, _, _, _, _)
ClosestFrom(arr, target, i, closest, closestIndex) ==
    IF i >= Len(arr) THEN closestIndex
    ELSE LET diff == Abs(arr[i + 1] - target)
         IN  IF closestIndex = -1 \/ diff < closest
             THEN ClosestFrom(arr, target, i + 1, diff, i)
             ELSE ClosestFrom(arr, target, i + 1, closest, closestIndex)

\* closest starts at Infinity: the first element always wins the first test
findClosestIndex(arr, target) == ClosestFrom(arr, target, 0, 0, -1)

(***************************************************************************)
(* Grid Builder                                                            *)
(***************************************************************************)
RECURSIVE DivisionsFrom_noGuard(_, _, _, _, _)
DivisionsFrom_noGuard(a, b, step, j, k) ==
    IF j > k THEN <<>>
    ELSE <<a + j * step>> \o DivisionsFrom_noGuard(a, b, step, j + 1, k)

\* the division points of one interval (a, b), in the order j = 1..k
RECURSIVE DivisionsFrom(_, _, _, _, _)
DivisionsFrom(a, b, step, j, k) ==
    IF j > k THEN <<>>
    ELSE LET t == a + j * step
         IN  (IF t > a + DIV_TOL /\ t < b - DIV_TOL THEN <<t>> ELSE <<>>)
             \o DivisionsFrom(a, b, step, j + 1, k)

RECURSIVE AddDivisionsFrom(_, _, _, _)
AddDivisionsFrom(lines, cuts, step, i) ==
    IF i >= Len(cuts) - 1 THEN lines
    ELSE LET a == cuts[i + 1]
             b == cuts[i + 2]
             span == b - a
         IN  IF span <= 0 THEN AddDivisionsFrom(lines, cuts, step, i + 1)
             ELSE AddDivisionsFrom(
                      SetAddAll(lines, DivisionsFrom(a, b, step, 1, span \div step)),
                      cuts, step, i + 1)

addDivisions_noSort(cuts, max, step) ==
    AddDivisionsFrom(Dedup(cuts), cuts, step, 0)

addDivisions(cuts, max, step) ==
    SortNum(AddDivisionsFrom(Dedup(cuts), cuts, step, 0))

xCuts(pts, len) ==
    uniqSorted(<<0, len>> \o [i \in DOMAIN pts |-> clamp(pts[i].x, 0, len)])
zCuts(pts, wid) ==
    uniqSorted(<<0, wid>> \o [i \in DOMAIN pts |-> clamp(pts[i].z, 0, wid)])

xLinesOf(pts, len, step) == addDivisions(xCuts(pts, len), len, step)
zLinesOf(pts, wid, step) == addDivisions(zCuts(pts, wid), wid, step)

(***************************************************************************)
(* Mesh Synthesizer                                                        *)
(***************************************************************************)
\* surface nodes pushed with xi outer, zi inner
surfaceNodes_xOuter(xl, zl) ==
    [k \in 1..(Len(zl) * Len(xl)) |->
        [id |-> k,
         x |-> xl[((k - 1) \div Len(zl)) + 1],
         y |-> 0,
         z |-> zl[((k - 1) % Len(zl)) + 1],
         type |-> "surface"]]

\* surface nodes in push order: zi outer, xi inner, id = nodeIdCounter++
surfaceNodes(xl, zl) ==
    [k \in 1..(Len(zl) * Len(xl)) |->
        [id |-> k,
         x |-> xl[((k - 1) % Len(xl)) + 1],
         y |-> 0,
         z |-> zl[((k - 1) \div Len(xl)) + 1],
         type |-> "surface"]]

coordKey_xOnly(x, z) == <<round3(x), 0>>

\* the key `${round3(x)},${round3(z)}`
coordKey(x, z) == <<round3(x), round3(z)>>

\* surfaceNodesByCoord: a later node of the same key overwrites an earlier one
surfaceNodesByCoord(surf) ==
    [key \in {coordKey(surf[k].x, surf[k].z) : k \in DOMAIN surf} |->
        LET ks == {k \in DOMAIN surf : coordKey(surf[k].x, surf[k].z) = key}
        IN  surf[CHOOSE k \in ks : \A j \in ks : j <= k].id]

lookupSurfaceNode_fallback(byCoord, point) ==
    IF coordKey(point.x, point.z) \in DOMAIN byCoord
    THEN byCoord[coordKey(point.x, point.z)]
    ELSE 1

\* byCoord[key]; 0 stands for undefined
lookupSurfaceNode(byCoord, point) ==
    IF coordKey(point.x, point.z) \in DOMAIN byCoord
    THEN byCoord[coordKey(point.x, point.z)]
    ELSE 0

\* points.forEach of the pedestal attachment; result <<allNodes, newMembers>>
RECURSIVE attachFrom(_, _, _, _, _, _)
attachFrom(pts, i, byCoord, h, allNodes, newMembers) ==
    IF i > Len(pts) THEN <<allNodes, newMembers>>
    ELSE LET point == pts[i]
             surfaceNodeId == lookupSurfaceNode(byCoord, point)
             newPedestalNodeId == Len(allNodes) + 1
         IN  IF surfaceNodeId # 0
             THEN attachFrom(pts, i + 1, byCoord, h,
                      Append(allNodes,
                             [id |-> newPedestalNodeId, x |-> point.x, y |-> h,
                              z |-> point.z, type |-> "pedestal"]),
                      Append(newMembers,
                             [id |-> Len(newMembers) + 1,
                              startNode |-> surfaceNodeId,
                              endNode |-> newPedestalNodeId,
                              pointData |-> point]))
             ELSE attachFrom(pts, i + 1, byCoord, h, allNodes, newMembers)

nodesAndMembers_noHeightTest(xl, zl, h, pts) ==
    LET surf == surfaceNodes(xl, zl)
    IN  attachFrom(pts, 1, surfaceNodesByCoord(surf), h, surf, <<>>)

\* nodeIdCounter kept from the previous computation instead of restarting at 1
nodesAndMembers_staleCounter(xl, zl, h, pts) ==
    LET surf == surfaceNodes(xl, zl)
        nm == IF h > HEIGHT_TOL
              THEN attachFrom(pts, 1, surfaceNodesByCoord(surf), h, surf, <<>>)
              ELSE <<surf, <<>>>>
    IN  <<[k \in DOMAIN nm[1] |-> [nm[1][k] EXCEPT !.id = @ + Len(nodes)]], nm[2]>>

\* <<allNodes, newMembers>> of the nodes/members memo
nodesAndMembers(xl, zl, h, pts) ==
    LET surf == surfaceNodes(xl, zl)
    IN  IF h > HEIGHT_TOL
        THEN attachFrom(pts, 1, surfaceNodesByCoord(surf), h, surf, <<>>)
        ELSE <<surf, <<>>>>

nodeIdAt_plateStride(xi, zi, nX) == zi * (nX - 1) + xi + 1

nodeIdAt(xi, zi, nX) == zi * nX + xi + 1

\* the grid cells <<xi, zi>> in scan order: zi outer, xi inner
plateCells(xl, zl) ==
    IF Len(xl) < 2 \/ Len(zl) < 2 THEN <<>>
    ELSE [k \in 1..((Len(zl) - 1) * (Len(xl) - 1)) |->
            <<(k - 1) % (Len(xl) - 1), (k - 1) \div (Len(xl) - 1)>>]

plateOrder_down(xi, zi, nX, orientation) ==
    <<nodeIdAt(xi, zi, nX), nodeIdAt(xi + 1, zi, nX),
      nodeIdAt(xi + 1, zi + 1, nX), nodeIdAt(xi, zi + 1, nX)>>

plateOrder(xi, zi, nX, orientation) ==
    LET tl == nodeIdAt(xi, zi, nX)
        tr == nodeIdAt(xi + 1, zi, nX)
        br == nodeIdAt(xi + 1, zi + 1, nX)
        bl == nodeIdAt(xi, zi + 1, nX)
    IN  IF orientation = "up" THEN <<bl, br, tr, tl>> ELSE <<tl, tr, br, bl>>

\* newPlates: id = plateIdCounter++ in scan order
platesOf(xl, zl, orientation) ==
    LET cells == plateCells(xl, zl)
    IN  [k \in DOMAIN cells |->
            [id |-> k,
             nodes |-> plateOrder(cells[k][1], cells[k][2], Len(xl), orientation)]]

\* plateIdByCoord: `${xi},${zi}` -> plate id
plateIdByCoordOf(xl, zl) ==
    LET cells == plateCells(xl, zl)
    IN  [c \in Range(cells) |-> CHOOSE k \in DOMAIN cells : cells[k] = c]

(***************************************************************************)
(* Group Classifier                                                        *)
(***************************************************************************)
\* plateIdByCoord.get(`${xi},${zi}`); 0 stands for undefined
plateIdGet(byCoord, xi, zi) ==
    IF <<xi, zi>> \in DOMAIN byCoord THEN byCoord[<<xi, zi>>] ELSE 0

visitedCells_noClip(sx, ex, sz, ez, nx_plates, nz_plates) ==
    {<<xi, zi>> : xi \in sx..(ex - 1), zi \in sz..(ez - 1)}

\* the (xi, zi) the two nested for loops visit for the half-open index
\* ranges [sx, ex) and [sz, ez) after clipping to the plate grid
visitedCells(sx, ex, sz, ez, nx_plates, nz_plates) ==
    {<<xi, zi>> : xi \in Max2(0, sx)..(Min2(nx_plates, ex) - 1),
                  zi \in Max2(0, sz)..(Min2(nz_plates, ez) - 1)}

\* the plate ids the loops add to a Set
platesInRange(byCoord, sx, ex, sz, ez, nx_plates, nz_plates) ==
    {plateIdGet(byCoord, c[1], c[2]) :
        c \in visitedCells(sx, ex, sz, ez, nx_plates, nz_plates)} \ {0}

\* <<start_x, end_x, start_z, end_z>> of the moment range of pedestal p
momentRange(p, xl, zl, m) ==
    LET px_idx == findClosestIndex(xl, p.x)
        pz_idx == findClosestIndex(zl, p.z)
        num_x_plates_moment == JsRoundDiv(p.length, m)
        num_z_plates_moment == JsRoundDiv(p.width, m)
    IN  <<FloorHalf(px_idx, num_x_plates_moment),
          CeilHalf(px_idx, num_x_plates_moment),
          FloorHalf(pz_idx, num_z_plates_moment),
          CeilHalf(pz_idx, num_z_plates_moment)>>

widened_inward(r, n) == <<r[1] + n, r[2] - n, r[3] + n, r[4] - n>>

\* a range widened by n plates on both ends of both axes
widened(r, n) == <<r[1] - n, r[2] + n, r[3] - n, r[4] + n>>

numPlatesToAddOneWay_quarter(t, m) == JsRoundDiv(t, 4 * m)

numPlatesToAddOneWay(t, m) == JsRoundDiv(t, m)
numPlatesToAddTwoWay_full(t, m) == JsRoundDiv(t, m)

numPlatesToAddTwoWay(t, m) == JsRoundDiv(t, 2 * m)

oneWayRange(p, xl, zl, m, t) ==
    widened(momentRange(p, xl, zl, m), numPlatesToAddOneWay(t, m))
twoWayRange(p, xl, zl, m, t) ==
    widened(momentRange(p, xl, zl, m), numPlatesToAddTwoWay(t, m))

rangePlates(byCoord, r, xl, zl) ==
    platesInRange(byCoord, r[1], r[2], r[3], r[4], Len(xl) - 1, Len(zl) - 1)

\* points.forEach of the classifier; acc = <<moment, oneWay, twoWay>> Sets
RECURSIVE classifyFrom(_, _, _, _, _, _, _, _)
classifyFrom(pts, i, xl, zl, byCoord, m, t, acc) ==
    IF i > Len(pts) THEN acc
    ELSE LET p == pts[i]
         IN  classifyFrom(pts, i + 1, xl, zl, byCoord, m, t,
                 <<acc[1] \cup rangePlates(byCoord, momentRange(p, xl, zl, m), xl, zl),
                   acc[2] \cup rangePlates(byCoord, oneWayRange(p, xl, zl, m, t), xl, zl),
                   acc[3] \cup rangePlates(byCoord, twoWayRange(p, xl, zl, m, t), xl, zl)>>)

\* Array.from(set).sort((a, b) => a - b)
RECURSIVE sortedFromSet(_)
sortedFromSet(S) ==
    IF S = {} THEN <<>>
    ELSE LET lo == CHOOSE v \in S : \A w \in S : v <= w
         IN  <<lo>> \o sortedFromSet(S \ {lo})

\* <<groupedPlates, shearPlates, twoWayShearPlates>>
classify(pts, xl, zl, byCoord, m, t) ==
    LET acc == classifyFrom(pts, 1, xl, zl, byCoord, m, t, <<{}, {}, {}>>)
    IN  <<sortedFromSet(acc[1]), sortedFromSet(acc[2]), sortedFromSet(acc[3])>>

\* the per-pedestal Sets of the bounding-box memo
momentPlatesForPedestal(p, xl, zl, byCoord, m) ==
    rangePlates(byCoord, momentRange(p, xl, zl, m), xl, zl)
oneWayShearPlatesForPedestal(p, xl, zl, byCoord, m, t) ==
    rangePlates(byCoord, oneWayRange(p, xl, zl, m, t), xl, zl)
twoWayShearPlatesForPedestal(p, xl, zl, byCoord, m, t) ==
    rangePlates(byCoord, twoWayRange(p, xl, zl, m, t), xl, zl)

(***************************************************************************)
(* Bounding-Box Calculator                                                 *)
(***************************************************************************)
\* plates.find(p => p.id === plateId), nodes.find(n => n.id === nodeId):
\* the first element with the id; the nodes found for the corners of the
\* plates of plateIds
cornerNodes(plateIds, ps, ns) ==
    LET found == {k \in DOMAIN ps : ps[k].id \in plateIds
                                      /\ \A j \in 1..(k - 1) : ps[j].id # ps[k].id}
        nodeIds == UNION {Range(ps[k].nodes) : k \in found}
    IN  {ns[k] : k \in {j \in DOMAIN ns : ns[j].id \in nodeIds
                                            /\ \A h \in 1..(j - 1) : ns[h].id # ns[j].id}}

\* the return value null
NoBox == [null |-> TRUE]

getBoundingBoxForPlates_fromOrigin(plateIds, ps, ns) ==
    IF plateIds = {} THEN NoBox
    ELSE LET corners == cornerNodes(plateIds, ps, ns)
             maxX == CHOOSE v \in {n.x : n \in corners} : \A n \in corners : n.x <= v
             maxZ == CHOOSE v \in {n.z : n \in corners} : \A n \in corners : n.z <= v
         IN  [x |-> 0, y |-> 0, width |-> maxX, height |-> maxZ]

\* plateIds is the content of the array passed in; min and max start at
\* +-Infinity and stay there when no corner node is found
getBoundingBoxForPlates(plateIds, ps, ns) ==
    IF plateIds = {} THEN NoBox
    ELSE LET corners == cornerNodes(plateIds, ps, ns)
         IN  IF corners = {}
             THEN [x |-> "Infinity", y |-> "Infinity",
                   width |-> "-Infinity", height |-> "-Infinity"]
             ELSE LET minX == CHOOSE v \in {n.x : n \in corners} : \A n \in corners : v <= n.x
                      maxX == CHOOSE v \in {n.x : n \in corners} : \A n \in corners : n.x <= v
                      minZ == CHOOSE v \in {n.z : n \in corners} : \A n \in corners : v <= n.z
                      maxZ == CHOOSE v \in {n.z : n \in corners} : \A n \in corners : n.z <= v
                  IN  [x |-> minX, y |-> minZ, width |-> maxX - minX, height |-> maxZ - minZ]

\* points.forEach pushing the box of each pedestal's plate set unless null
RECURSIVE boxesFrom(_, _, _, _, _)
boxesFrom(plateSets, i, ps, ns, boxes) ==
    IF i > Len(plateSets) THEN boxes
    ELSE LET box == getBoundingBoxForPlates(plateSets[i], ps, ns)
         IN  boxesFrom(plateSets, i + 1, ps, ns,
                       IF box = NoBox THEN boxes ELSE Append(boxes, box))

pedestalGroupBoundingBoxes(pts, xl, zl, byCoord, m, t, ps, ns) ==
    [moment |->
        boxesFrom([i \in DOMAIN pts |-> momentPlatesForPedestal(pts[i], xl, zl, byCoord, m)],
                  1, ps, ns, <<>>),
     oneWayShear |->
        boxesFrom([i \in DOMAIN pts |->
                      oneWayShearPlatesForPedestal(pts[i], xl, zl, byCoord, m, t)],
                  1, ps, ns, <<>>),
     twoWayShear |->
        boxesFrom([i \in DOMAIN pts |->
                      twoWayShearPlatesForPedestal(pts[i], xl, zl, byCoord, m, t)],
                  1, ps, ns, <<>>)]

(***************************************************************************)
(* Older classifier variant: exact grid-index lookup                       *)
(***************************************************************************)
\* arr.indexOf(v): the first index holding v, -1 when there is none
indexOf(arr, v) ==
    IF v \in Range(arr)
    THEN (CHOOSE i \in DOMAIN arr : arr[i] = v /\ \A j \in 1..(i - 1) : arr[j] # v) - 1
    ELSE -1

\* the early return of the older variant: the pedestal is left out of the groups
skippedByIndexOf(p, xl, zl) == indexOf(xl, p.x) = -1 \/ indexOf(zl, p.z) = -1

(***************************************************************************)
(* STAAD Exporter                                                          *)
(***************************************************************************)
\* charLimit of the joint and element blocks
JOINT_CHAR_LIMIT == 74
\* charLimit of formatGroupLines
GROUP_CHAR_LIMIT == 60

Digit(d) ==
    CASE d = 0 -> "0" [] d = 1 -> "1" [] d = 2 -> "2" [] d = 3 -> "3"
      [] d = 4 -> "4" [] d = 5 -> "5" [] d = 6 -> "6" [] d = 7 -> "7"
      [] d = 8 -> "8" [] OTHER -> "9"

\* String(n) of an integer n >= 0
RECURSIVE DecStr(_)
DecStr(n) == IF n < 10 THEN Digit(n) ELSE DecStr(n \div 10) \o Digit(n % 10)

\* the decimals of f thousandths (0 < f < 1000), trailing zeros dropped
FracStr(f) ==
    IF f % 100 = 0 THEN Digit(f \div 100)
    ELSE IF f % 10 = 0 THEN Digit(f \div 100) \o Digit((f \div 10) % 10)
    ELSE Digit(f \div 100) \o Digit((f \div 10) % 10) \o Digit(f % 10)

\* `${round3(v)}`: the shortest decimal of Math.round(v * 1000) / 1000
round3Str(v) ==
    LET k == JsRoundQuot(v, MILLI)
        a == Abs(k)
        body == IF a % 1000 = 0 THEN DecStr(a \div 1000)
                ELSE DecStr(a \div 1000) \o "." \o FracStr(a % 1000)
    IN  IF k < 0 THEN "-" \o body ELSE body

\* `${n.id} ${round3(n.x)} ${round3(n.y)} ${round3(n.z)}`
jointStr(n) ==
    DecStr(n.id) \o " " \o round3Str(n.x) \o " " \o round3Str(n.y)
        \o " " \o round3Str(n.z)

\* `${p.id} ${p.nodes.join(" ")}`
plateStr(p) ==
    DecStr(p.id) \o " " \o DecStr(p.nodes[1]) \o " " \o DecStr(p.nodes[2])
        \o " " \o DecStr(p.nodes[3]) \o " " \o DecStr(p.nodes[4])

\* the forEach that packs "; "-joined tokens, and the flush after it
RECURSIVE packFrom(_, _, _, _)
packFrom(tokens, i, currentLine, lines) ==
    IF i > Len(tokens)
    THEN IF currentLine # "" THEN Append(lines, currentLine \o ";") ELSE lines
    ELSE IF currentLine = ""
    THEN packFrom(tokens, i + 1, tokens[i], lines)
    ELSE IF Len(currentLine \o "; " \o tokens[i]) <= JOINT_CHAR_LIMIT
    THEN packFrom(tokens, i + 1, currentLine \o "; " \o tokens[i], lines)
    ELSE packFrom(tokens, i + 1, tokens[i], Append(lines, currentLine \o ";"))

jointLines(ns) == packFrom([k \in DOMAIN ns |-> jointStr(ns[k])], 1, "", <<>>)
elementLines(ps) == packFrom([k \in DOMAIN ps |-> plateStr(ps[k])], 1, "", <<>>)

RECURSIVE groupLinesFrom_dropOnWrap(_, _, _, _, _)
groupLinesFrom_dropOnWrap(first, ids, i, currentLine, lines) ==
    IF i > Len(ids)
    THEN IF currentLine # first THEN Append(lines, currentLine) ELSE lines
    ELSE LET idStr == DecStr(ids[i])
             potentialNextLine == currentLine \o " " \o idStr
         IN  IF Len(potentialNextLine) > GROUP_CHAR_LIMIT
             THEN groupLinesFrom_dropOnWrap(first, ids, i + 1, "",
                                            Append(lines, currentLine \o " -"))
             ELSE groupLinesFrom_dropOnWrap(first, ids, i + 1, potentialNextLine, lines)

RECURSIVE groupLinesFrom(_, _, _, _, _)
groupLinesFrom(first, ids, i, currentLine, lines) ==
    IF i > Len(ids)
    THEN IF currentLine # first THEN Append(lines, currentLine) ELSE lines
    ELSE LET idStr == DecStr(ids[i])
             potentialNextLine == currentLine \o " " \o idStr
         IN  IF Len(potentialNextLine) > GROUP_CHAR_LIMIT
             THEN groupLinesFrom(first, ids, i + 1, idStr,
                                 Append(lines, currentLine \o " -"))
             ELSE groupLinesFrom(first, ids, i + 1, potentialNextLine, lines)

\* groupName is upper case already: toUpperCase() leaves it as it is
formatGroupLines(groupName, ids) ==
    groupLinesFrom("_" \o groupName, ids, 1, "_" \o groupName, <<>>)

groupSection(moment, oneWay, twoWay) ==
    IF Len(moment) > 0 \/ Len(oneWay) > 0 \/ Len(twoWay) > 0
    THEN <<"START GROUP DEFINITION", "ELEMENT">>
         \o (IF Len(moment) > 0 THEN formatGroupLines("MOMENT", moment) ELSE <<>>)
         \o (IF Len(oneWay) > 0 THEN formatGroupLines("1_WAY_SHEAR", oneWay) ELSE <<>>)
         \o (IF Len(twoWay) > 0 THEN formatGroupLines("2_WAY_SHEAR", twoWay) ELSE <<>>)
         \o <<"END GROUP DEFINITION">>
    ELSE <<>>

elementProperty_always(ps, t) ==
    <<"ELEMENT PROPERTY",
      "1 TO " \o DecStr(Len(ps)) \o " THICKNESS " \o round3Str(t) \o ";">>

elementProperty(ps, t) ==
    IF Len(ps) > 0
    THEN <<"ELEMENT PROPERTY",
           "1 TO " \o DecStr(Len(ps)) \o " THICKNESS " \o round3Str(t) \o ";">>
    ELSE <<>>

lastPlateIdOf(ps) == IF Len(ps) > 0 THEN ps[Len(ps)].id ELSE 0

exportedMemberId_fromOne(ps, k) == k

\* memberIdCounter++ of the k-th member (k = 1 for the first)
exportedMemberId(ps, k) == lastPlateIdOf(ps) + k

\* memberIdMap.get(pid): the last member of that pedestal id set the entry;
\* 0 stands for undefined
memberIdMapGet(ms, ps, pid) ==
    LET ks == {k \in DOMAIN ms : ms[k].pointData.id = pid}
    IN  IF ks = {} THEN 0
        ELSE exportedMemberId(ps, CHOOSE k \in ks : \A j \in ks : j <= k)

memberIncidenceLines(ms, ps) ==
    [k \in DOMAIN ms |->
        DecStr(exportedMemberId(ps, k)) \o " " \o DecStr(ms[k].startNode)
            \o " " \o DecStr(ms[k].endNode) \o ";"]

materialBlock ==
    <<"DEFINE MATERIAL START", "ISOTROPIC CONCRETE", "E 2.17185e+07",
      "POISSON 0.17", "DENSITY 23.5616", "ALPHA 1e-05", "DAMP 0.05",
      "G 9.28139e+06", "TYPE CONCRETE", "STRENGTH FCU 27579",
      "END DEFINE MATERIAL", "CONSTANTS", "MATERIAL CONCRETE ALL">>

RECURSIVE memberPropertyFrom(_, _, _)
memberPropertyFrom(ms, ps, k) ==
    IF k > Len(ms) THEN <<>>
    ELSE LET memberId == memberIdMapGet(ms, ps, ms[k].pointData.id)
         IN  (IF memberId # 0
              THEN <<DecStr(memberId) \o " PRISM YD "
                        \o round3Str(ms[k].pointData.length) \o " ZD "
                        \o round3Str(ms[k].pointData.width) \o ";">>
              ELSE <<>>)
             \o memberPropertyFrom(ms, ps, k + 1)

memberSection(ms, ps) ==
    IF Len(ms) > 0
    THEN <<"MEMBER INCIDENCES">> \o memberIncidenceLines(ms, ps)
         \o materialBlock
         \o <<"MEMBER PROPERTY">> \o memberPropertyFrom(ms, ps, 1)
    ELSE <<>>

\* the lines of exportText; formattedDate is format(new Date(), 'dd-MMM-yy')
exportLines(formattedDate, ns, ps, ms, t, moment, oneWay, twoWay) ==
    <<"STAAD SPACE", "START JOB INFORMATION", "ENGINEER DATE " \o formattedDate,
      "END JOB INFORMATION", "INPUT WIDTH 79", "UNIT METER KN",
      "JOINT COORDINATES">>
    \o jointLines(ns)
    \o <<"ELEMENT INCIDENCES SHELL">>
    \o elementLines(ps)
    \o groupSection(moment, oneWay, twoWay)
    \o elementProperty(ps, t)
    \o memberSection(ms, ps)
    \o <<"FINISH">>

(***************************************************************************)
(* Input snapshots                                                         *)
(***************************************************************************)
\* pedestal footprints (x, z, length, width), nm: on a mesh line and clear
\* of the edges; off the 1e-6 grid in x and in length; just below a half
\* millimetre; outside
\* the plan (typed into the add form); in the corner of the plan
PedestalShapes ==
    { [x |-> 600000000, z |-> 400000000, length |-> 500000000, width |-> 300000000],
      [x |-> 200000400, z |-> 400000000, length |-> 300000400, width |-> 500000000],
      [x |-> 300499600, z |-> 200000000, length |-> 500000000, width |-> 300000000],
      [x |-> 1500000000, z |-> 200000000, length |-> 500000000, width |-> 300000000],
      [x |-> 0, z |-> 0, length |-> 100000000, width |-> 100000000] }

WithIds(shapes) ==
    [i \in DOMAIN shapes |->
        [id |-> i, x |-> shapes[i].x, z |-> shapes[i].z,
         length |-> shapes[i].length, width |-> shapes[i].width]]

PointLists ==
    UNION {{WithIds(s) : s \in [1..n -> PedestalShapes]} : n \in 0..MaxPoints}

\* the last one rounds to 0 in uniqSorted: a grid of one x line, no plate
Lengths == {1200000000, 600000400, 400}
Widths == {800000000, 400000400}
Meshes == {200000000, 199999999}
Heights == {500000000, 0, 1}
Thicknesses == {300000000, -300000000}
Orientations == {"down", "up"}
\* values of format(new Date(), 'dd-MMM-yy')
Dates == {"06-Nov-25", "07-Nov-25"}

BaseSettings ==
    [length |-> 1200000000, width |-> 800000000, mesh |-> 200000000,
     pedestalHeight |-> 500000000, plateThickness |-> 300000000,
     zOrientation |-> "down"]

\* the settings that differ from BaseSettings in at most MaxChanged fields
Settings ==
    {s \in [length : Lengths, width : Widths, mesh : Meshes,
            pedestalHeight : Heights, plateThickness : Thicknesses,
            zOrientation : Orientations] :
        Cardinality({f \in DOMAIN s : s[f] # BaseSettings[f]}) <= MaxChanged}

(***************************************************************************)
(* The pipeline as a state machine: one step per memoised stage            *)
(***************************************************************************)
Init ==
    /\ \E s \in Settings :
          /\ length = s.length
          /\ width = s.width
          /\ mesh = s.mesh
          /\ pedestalHeight = s.pedestalHeight
          /\ plateThickness = s.plateThickness
          /\ zOrientation = s.zOrientation
    /\ points \in PointLists
    /\ xLines = <<>>
    /\ zLines = <<>>
    /\ nodes = <<>>
    /\ members = <<>>
    /\ plates = <<>>
    /\ plateIdByCoord = <<>>
    /\ groupedPlates = <<>>
    /\ shearPlates = <<>>
    /\ twoWayShearPlates = <<>>
    /\ exportText = <<>>
    /\ dragId = 0
    /\ newPointX = 0
    /\ newPointZ = 0
    /\ pc = "grid"
    /\ cause = "first"

GridBuilder ==
    /\ pc = "grid"
    /\ xLines' = xLinesOf(points, length, mesh)
    /\ zLines' = zLinesOf(points, width, mesh)
    /\ pc' = "mesh"
    /\ UNCHANGED <<inputs, meshVars, groupVars, exportVars, uiVars, cause>>

MeshSynthesizer ==
    /\ pc = "mesh"
    /\ LET nm == nodesAndMembers(xLines, zLines, pedestalHeight, points)
       IN  /\ nodes' = nm[1]
           /\ members' = nm[2]
    /\ plates' = platesOf(xLines, zLines, zOrientation)
    /\ plateIdByCoord' = plateIdByCoordOf(xLines, zLines)
    /\ pc' = "groups"
    /\ UNCHANGED <<inputs, gridVars, groupVars, exportVars, uiVars, cause>>

GroupClassifier ==
    /\ pc = "groups"
    /\ LET g == classify(points, xLines, zLines, plateIdByCoord, mesh, plateThickness)
       IN  /\ groupedPlates' = g[1]
           /\ shearPlates' = g[2]
           /\ twoWayShearPlates' = g[3]
    /\ pc' = "export"
    /\ UNCHANGED <<inputs, gridVars, meshVars, exportVars, uiVars, cause>>

\* the export memo; the date is the clock's, read when the memo runs
StaadExporter ==
    /\ pc = "export"
    /\ \E formattedDate \in Dates :
          exportText' = exportLines(formattedDate, nodes, plates, members,
                                    plateThickness, groupedPlates, shearPlates,
                                    twoWayShearPlates)
    /\ pc' = "done"
    /\ UNCHANGED <<inputs, gridVars, meshVars, groupVars, uiVars, cause>>

Next == GridBuilder \/ MeshSynthesizer \/ GroupClassifier \/ StaadExporter

Spec == Init /\ [][Next]_vars

(***************************************************************************)
(* Recomputation: the memo chain runs again after the first export, on the *)
(* same input snapshot or after the orientation select changed.  The       *)
(* results of the previous run are still in place when it starts.          *)
(***************************************************************************)
Rerun ==
    /\ pc = "done"
    /\ pc' = "grid"
    /\ cause' = "same"
    /\ UNCHANGED <<inputs, gridVars, meshVars, groupVars, exportVars, uiVars>>

setZOrientation ==
    /\ pc = "done"
    /\ \E o \in Orientations \ {zOrientation} : zOrientation' = o
    /\ pc' = "grid"
    /\ cause' = "flip"
    /\ UNCHANGED <<length, width, mesh, pedestalHeight, plateThickness, points,
                   gridVars, meshVars, groupVars, exportVars, uiVars>>

NextRerun == Next \/ Rerun \/ setZOrientation

\* the snapshots whose pipeline is run again
InitRerun == Init /\ Len(points) <= MaxRerunPoints

SpecRerun == InitRerun /\ [][NextRerun]_vars

(***************************************************************************)
(* The pedestal list under the user's actions.  The plan is 1.2 x 0.8 (the *)
(* store's 6 x 4 after the two plan inputs were used: 6 m in nm is beyond  *)
(* 32 bit); the pipeline is not run here, its results stay empty.          *)
(***************************************************************************)
\* longest pedestal list the user builds
MaxUIPoints == 2
\* largest pedestal id handed out
MaxId == 3

\* length and width of a new pedestal: 0.5 and 0.3 (m)
NEW_LENGTH == 500000000
NEW_WIDTH == 300000000
\* least plan extent and least pedestal size the inputs accept: 0.1 (m)
MIN_EXTENT == 100000000
MIN_SIZE == 100000000

\* numbers typed into the inputs, as parseFloat returns them (0: also for
\* an empty field, where parseFloat gives NaN)
TypedX == {900000000}
TypedZ == {0}
TypedSizes == {0}
TypedExtents == {600000000}
\* cursor positions on the canvas, in metres (cursorpt / pxPerMeter)
Cursors == {<<900000000, 0>>}

\* parseFloat(e.target.value) || d
ParseOr(v, d) == IF v = 0 THEN d ELSE v

SeqMax(ids) == CHOOSE v \in Range(ids) : \A w \in Range(ids) : w <= v

nextId_byCount(pts) == Len(pts) + 1

\* maxId + 1, maxId = 0 for the empty list
nextId(pts) ==
    (IF Len(pts) > 0 THEN SeqMax([i \in DOMAIN pts |-> pts[i].id]) ELSE 0) + 1

newPedestal(id, x, z) ==
    [id |-> id, x |-> x, z |-> z, length |-> NEW_LENGTH, width |-> NEW_WIDTH]

\* arr.filter(keep)
RECURSIVE FilterOutId(_, _)
FilterOutId(arr, id) ==
    IF arr = <<>> THEN <<>>
    ELSE (IF Head(arr).id # id THEN <<Head(arr)>> ELSE <<>>)
         \o FilterOutId(Tail(arr), id)

pipelineVars == <<gridVars, meshVars, groupVars, exportVars, pc, cause>>
otherSettings == <<mesh, pedestalHeight, plateThickness, zOrientation>>

InitUI ==
    /\ length = 1200000000
    /\ width = 800000000
    /\ mesh = 200000000
    /\ pedestalHeight = 0
    /\ plateThickness = 300000000
    /\ zOrientation = "down"
    /\ points = <<>>
    /\ xLines = <<>> /\ zLines = <<>>
    /\ nodes = <<>> /\ members = <<>> /\ plates = <<>> /\ plateIdByCoord = <<>>
    /\ groupedPlates = <<>> /\ shearPlates = <<>> /\ twoWayShearPlates = <<>>
    /\ exportText = <<>>
    /\ dragId = 0
    /\ newPointX = 0
    /\ newPointZ = 0
    /\ pc = "grid"
    /\ cause = "first"

setNewPointX ==
    /\ \E v \in TypedX : newPointX' = ParseOr(v, 0)
    /\ UNCHANGED <<inputs, dragId, newPointZ, pipelineVars>>

setNewPointZ ==
    /\ \E v \in TypedZ : newPointZ' = ParseOr(v, 0)
    /\ UNCHANGED <<inputs, dragId, newPointX, pipelineVars>>

addPointManually ==
    /\ Len(points) < MaxUIPoints
    /\ nextId(points) <= MaxId
    /\ points' = Append(points, newPedestal(nextId(points), newPointX, newPointZ))
    /\ newPointX' = 0
    /\ newPointZ' = 0
    /\ UNCHANGED <<length, width, otherSettings, dragId, pipelineVars>>

onSvgClickPoints_noGuard(pts, drag, c, len, wid) ==
    Append(pts, newPedestal(nextId(pts), clamp(c[1], 0, len), clamp(c[2], 0, wid)))

\* the pedestal list after onSvgClick with the cursor at c; drag = 0 stands
\* for dragId === null
onSvgClickPoints(pts, drag, c, len, wid) ==
    IF drag # 0 THEN pts
    ELSE Append(pts, newPedestal(nextId(pts), clamp(c[1], 0, len), clamp(c[2], 0, wid)))

onSvgClick ==
    /\ dragId = 0
    /\ Len(points) < MaxUIPoints
    /\ nextId(points) <= MaxId
    /\ \E c \in Cursors : points' = onSvgClickPoints(points, dragId, c, length, width)
    /\ UNCHANGED <<length, width, otherSettings, uiVars, pipelineVars>>

onPointerDownPoint ==
    /\ \E i \in DOMAIN points : dragId' = points[i].id
    /\ UNCHANGED <<inputs, newPointX, newPointZ, pipelineVars>>

onPointerMovePoints_all(pts, drag, c, len, wid) ==
    IF drag = 0 THEN pts
    ELSE [i \in DOMAIN pts |->
             [pts[i] EXCEPT !.x = clamp(c[1], 0, len), !.z = clamp(c[2], 0, wid)]]

\* the pedestal list after onPointerMove with the cursor at c
onPointerMovePoints(pts, drag, c, len, wid) ==
    IF drag = 0 THEN pts
    ELSE [i \in DOMAIN pts |->
             IF pts[i].id = drag
             THEN [pts[i] EXCEPT !.x = clamp(c[1], 0, len), !.z = clamp(c[2], 0, wid)]
             ELSE pts[i]]

onPointerMove ==
    /\ dragId # 0
    /\ \E c \in Cursors : points' = onPointerMovePoints(points, dragId, c, length, width)
    /\ UNCHANGED <<length, width, otherSettings, uiVars, pipelineVars>>

onPointerUp ==
    /\ dragId' = 0
    /\ UNCHANGED <<inputs, newPointX, newPointZ, pipelineVars>>

\* the four inputs of a row of PedestalList
editX ==
    /\ \E i \in DOMAIN points, t \in TypedX :
          LET v == clamp(ParseOr(t, 0), 0, length)
          IN  points' = [j \in DOMAIN points |->
                            IF points[j].id = points[i].id
                            THEN [points[j] EXCEPT !.x = v] ELSE points[j]]
    /\ UNCHANGED <<length, width, otherSettings, uiVars, pipelineVars>>

editZ ==
    /\ \E i \in DOMAIN points, t \in TypedZ :
          LET v == clamp(ParseOr(t, 0), 0, width)
          IN  points' = [j \in DOMAIN points |->
                            IF points[j].id = points[i].id
                            THEN [points[j] EXCEPT !.z = v] ELSE points[j]]
    /\ UNCHANGED <<length, width, otherSettings, uiVars, pipelineVars>>

editLength ==
    /\ \E i \in DOMAIN points, t \in TypedSizes :
          LET v == Max2(MIN_SIZE, ParseOr(t, MIN_SIZE))
          IN  points' = [j \in DOMAIN points |->
                            IF points[j].id = points[i].id
                            THEN [points[j] EXCEPT !.length = v] ELSE points[j]]
    /\ UNCHANGED <<length, width, otherSettings, uiVars, pipelineVars>>

editWidth ==
    /\ \E i \in DOMAIN points, t \in TypedSizes :
          LET v == Max2(MIN_SIZE, ParseOr(t, MIN_SIZE))
          IN  points' = [j \in DOMAIN points |->
                            IF points[j].id = points[i].id
                            THEN [points[j] EXCEPT !.width = v] ELSE points[j]]
    /\ UNCHANGED <<length, width, otherSettings, uiVars, pipelineVars>>

deletePoint ==
    /\ \E i \in DOMAIN points : points' = FilterOutId(points, points[i].id)
    /\ UNCHANGED <<length, width, otherSettings, uiVars, pipelineVars>>

deleteAllPedestals ==
    /\ points' = <<>>
    /\ UNCHANGED <<length, width, otherSettings, uiVars, pipelineVars>>

setLength ==
    /\ \E t \in TypedExtents : length' = Max2(MIN_EXTENT, ParseOr(t, MIN_EXTENT))
    /\ UNCHANGED <<width, otherSettings, points, uiVars, pipelineVars>>

setWidth ==
    /\ \E t \in TypedExtents : width' = Max2(MIN_EXTENT, ParseOr(t, MIN_EXTENT))
    /\ UNCHANGED <<length, otherSettings, points, uiVars, pipelineVars>>

NextUI ==
    \/ setNewPointX \/ setNewPointZ \/ addPointManually
    \/ onSvgClick \/ onPointerDownPoint \/ onPointerMove \/ onPointerUp
    \/ editX \/ editZ \/ editLength \/ editWidth
    \/ deletePoint \/ deleteAllPedestals
    \/ setLength \/ setWidth

SpecUI == InitUI /\ [][NextUI]_vars

(***************************************************************************)
(* Stage predicates and helpers of the properties                          *)
(***************************************************************************)
GridDone == pc # "grid"
MeshDone == pc \in {"groups", "export", "done"}
Done == pc = "done"

\* the state the Grid Builder / the Mesh Synthesizer leaves behind
GridBuilt == pc = "mesh"
MeshBuilt == pc = "groups"

StrictlyIncreasing(s) == \A i \in 1..(Len(s) - 1) : s[i] < s[i + 1]
ApartBy(s, d) == \A i \in 1..(Len(s) - 1) : s[i + 1] - s[i] >= d

Permuted(s) ==
    {[i \in DOMAIN s |-> s[f[i]]] :
        f \in {g \in [DOMAIN s -> DOMAIN s] : \A i, j \in DOMAIN s : g[i] = g[j] => i = j}}

(***************************************************************************)
(* C1  Grid coverage                                                       *)
(***************************************************************************)
\* C1 as stated: xLines holds 0, the length and every pedestal x clamped into
\* [0, length], zLines holds 0, the width and every clamped pedestal z; 0 is
\* the first and the extent the last element of each.
C1_AsStated ==
    GridDone =>
        /\ xLines[1] = 0 /\ xLines[Len(xLines)] = length
        /\ zLines[1] = 0 /\ zLines[Len(zLines)] = width
        /\ \A i \in DOMAIN points :
              /\ clamp(points[i].x, 0, length) \in Range(xLines)
              /\ clamp(points[i].z, 0, width) \in Range(zLines)

\* C1 amended: the same with the extent and every clamped pedestal coordinate
\* rounded to the nearest multiple of 1e-6 (what uniqSorted stores).
C1_GridCoverage ==
    GridDone =>
        /\ xLines[1] = 0 /\ xLines[Len(xLines)] = roundEps(length)
        /\ zLines[1] = 0 /\ zLines[Len(zLines)] = roundEps(width)
        /\ \A i \in DOMAIN points :
              /\ roundEps(clamp(points[i].x, 0, length)) \in Range(xLines)
              /\ roundEps(clamp(points[i].z, 0, width)) \in Range(zLines)

\* a grid built for an out-of-plan pedestal and an off-grid one
C1_Witness ==
    /\ GridDone
    /\ \E i \in DOMAIN points : points[i].x > length
    /\ \E i \in DOMAIN points :
          /\ points[i].x \in 0..length
          /\ roundEps(points[i].x) # points[i].x

(***************************************************************************)
(* C2  Grid separation                                                     *)
(***************************************************************************)
\* C2: no two values of xLines, and no two values of zLines, differ by less
\* than 1e-6.
C2_Separation ==
    GridDone => ApartBy(xLines, EPS) /\ ApartBy(zLines, EPS)

(***************************************************************************)
(* C3  Grid order                                                          *)
(***************************************************************************)
\* C3: xLines and zLines are strictly increasing (sorted, no repeated value).
C3_StrictlyIncreasing ==
    GridDone => StrictlyIncreasing(xLines) /\ StrictlyIncreasing(zLines)

\* division points were inserted between pedestal cuts
C3_Witness ==
    /\ GridDone
    /\ Len(points) >= 1
    /\ Len(xLines) > Len(xCuts(points, length)) + 1
    /\ Len(xCuts(points, length)) > 2

(***************************************************************************)
(* C4  Grid determinism                                                    *)
(***************************************************************************)
\* C4: the grid lines are the same for every permutation of the pedestal
\* list and when a pedestal of the list is repeated in it.
C4_OrderInvariant ==
    GridDone =>
        /\ \A q \in Permuted(points) :
              /\ xLinesOf(q, length, mesh) = xLines
              /\ zLinesOf(q, width, mesh) = zLines
        /\ \A i \in DOMAIN points :
              /\ xLinesOf(points \o <<points[i]>>, length, mesh) = xLines
              /\ zLinesOf(<<points[i]>> \o points, width, mesh) = zLines

\* two pedestals with different cuts on both axes, listed in descending x
C4_Witness ==
    /\ GridDone
    /\ Len(points) >= 2
    /\ points[1].x > points[2].x
    /\ points[1].x < length
    /\ points[1].z # points[2].z

(***************************************************************************)
(* Helpers of the mesh and group properties                                *)
(***************************************************************************)
SurfaceNodeIds == {nodes[k].id : k \in {j \in DOMAIN nodes : nodes[j].type = "surface"}}
PedestalNodeIds == {nodes[k].id : k \in {j \in DOMAIN nodes : nodes[j].type = "pedestal"}}
NodeOfId(id) == nodes[CHOOSE k \in DOMAIN nodes : nodes[k].id = id]

\* the pedestal's rounded centre is the rounded position of a surface node
Aligned(p) ==
    \E k \in DOMAIN nodes :
        /\ nodes[k].type = "surface"
        /\ round3(nodes[k].x) = round3(p.x)
        /\ round3(nodes[k].z) = round3(p.z)

InPlan(p) == p.x \in 0..length /\ p.z \in 0..width

MembersOf(p) == {k \in DOMAIN members : members[k].pointData = p}

PlateIds == {plates[k].id : k \in DOMAIN plates}

MomentOf(p) == momentPlatesForPedestal(p, xLines, zLines, plateIdByCoord, mesh)
OneWayOf(p) ==
    oneWayShearPlatesForPedestal(p, xLines, zLines, plateIdByCoord, mesh, plateThickness)
TwoWayOf(p) ==
    twoWayShearPlatesForPedestal(p, xLines, zLines, plateIdByCoord, mesh, plateThickness)

(***************************************************************************)
(* C5  Node, plate and member counts                                       *)
(***************************************************************************)
CountsWithThreshold(threshold) ==
    LET landing == {i \in DOMAIN points : Aligned(points[i])}
        expected == IF pedestalHeight > threshold THEN Cardinality(landing) ELSE 0
    IN  /\ Cardinality(SurfaceNodeIds) = Len(xLines) * Len(zLines)
        /\ Cardinality(PedestalNodeIds) = expected
        /\ Len(nodes) = Len(xLines) * Len(zLines) + expected
        /\ Len(plates) = (Len(xLines) - 1) * (Len(zLines) - 1)
        /\ Len(members) = Cardinality(PedestalNodeIds)

C6_InPlanPedestalHasMember ==
    (MeshDone /\ pedestalHeight > HEIGHT_TOL) =>
        \A i \in DOMAIN points :
            InPlan(points[i]) =>
                /\ Cardinality(MembersOf(points[i])) = 1
                /\ \A k \in MembersOf(points[i]) :
                      LET s == NodeOfId(members[k].startNode)
                          e == NodeOfId(members[k].endNode)
                      IN  /\ s.type = "surface"
                          /\ round3(s.x) = round3(points[i].x)
                          /\ round3(s.z) = round3(points[i].z)
                          /\ e.type = "pedestal"
                          /\ e.x = points[i].x
                          /\ e.y = pedestalHeight
                          /\ e.z = points[i].z

AllVisited(p) ==
    LET nxp == Len(xLines) - 1
        nzp == Len(zLines) - 1
        rm == momentRange(p, xLines, zLines, mesh)
        r1 == oneWayRange(p, xLines, zLines, mesh, plateThickness)
        r2 == twoWayRange(p, xLines, zLines, mesh, plateThickness)
    IN  visitedCells(rm[1], rm[2], rm[3], rm[4], nxp, nzp)
        \cup visitedCells(r1[1], r1[2], r1[3], r1[4], nxp, nzp)
        \cup visitedCells(r2[1], r2[2], r2[3], r2[4], nxp, nzp)

\* C8: every id of the three groups is the id of a plate, each group is the
\* union of the pedestals' plate sets and is strictly ascending, and every
\* (xi, zi) looked up lies in [0, |xLines|-1) x [0, |zLines|-1).
C8_GroupsWellFormed ==
    Done =>
        /\ Range(groupedPlates) \subseteq PlateIds
        /\ Range(shearPlates) \subseteq PlateIds
        /\ Range(twoWayShearPlates) \subseteq PlateIds
        /\ PlateIds = 1..Len(plates)
        /\ Range(groupedPlates) = UNION {MomentOf(points[i]) : i \in DOMAIN points}
        /\ Range(shearPlates) = UNION {OneWayOf(points[i]) : i \in DOMAIN points}
        /\ Range(twoWayShearPlates) = UNION {TwoWayOf(points[i]) : i \in DOMAIN points}
        /\ StrictlyIncreasing(groupedPlates)
        /\ StrictlyIncreasing(shearPlates)
        /\ StrictlyIncreasing(twoWayShearPlates)
        /\ \A i \in DOMAIN points : \A c \in AllVisited(points[i]) :
              /\ c[1] \in 0..(Len(xLines) - 2)
              /\ c[2] \in 0..(Len(zLines) - 2)

\* two pedestals with different plate sets, one of them clipped at the edge
C8_Witness ==
    /\ Done
    /\ Len(points) >= 2
    /\ MomentOf(points[1]) # {}
    /\ MomentOf(points[2]) # {}
    /\ MomentOf(points[1]) \cap MomentOf(points[2]) = {}
    /\ \E i \in DOMAIN points :
          momentRange(points[i], xLines, zLines, mesh)[1] < 0

(***************************************************************************)
(* C9  Moment group inside the one-way shear group                         *)
(***************************************************************************)
\* C9: with plateThickness > 0 the moment plates are one-way shear plates,
\* for each pedestal's sets and for the groups.
C9_MomentInOneWay ==
    (Done /\ plateThickness > 0) =>
        /\ Range(groupedPlates) \subseteq Range(shearPlates)
        /\ \A i \in DOMAIN points : MomentOf(points[i]) \subseteq OneWayOf(points[i])

\* a positive thickness that widens a non-empty moment set
C9_Witness ==
    /\ Done
    /\ plateThickness > 0
    /\ \E i \in DOMAIN points :
          /\ MomentOf(points[i]) # {}
          /\ MomentOf(points[i]) # OneWayOf(points[i])

(***************************************************************************)
(* C10  Size of an unclipped moment group                                  *)
(***************************************************************************)
Unclipped(p) ==
    LET r == momentRange(p, xLines, zLines, mesh)
    IN  /\ r[1] >= 0 /\ r[2] <= Len(xLines) - 1
        /\ r[3] >= 0 /\ r[4] <= Len(zLines) - 1

NumX(p) == JsRoundDiv(p.length, mesh)
NumZ(p) == JsRoundDiv(p.width, mesh)
UpToEven(n) == n + (n % 2)

\* C10 as stated: an unclipped moment set of a pedestal holds
\* round(length/m) * round(width/m) plates.
C10_AsStated ==
    Done =>
        \A i \in DOMAIN points :
            Unclipped(points[i]) =>
                Cardinality(MomentOf(points[i])) = NumX(points[i]) * NumZ(points[i])

\* C10 amended: it holds E(round(length/m)) * E(round(width/m)) plates, E(n)
\* being n raised to the next even number; 4 * 2 = 8 for a 0.5 x 0.3 pedestal
\* on a grid point with mesh 0.2.
C10_MomentCount ==
    Done =>
        \A i \in DOMAIN points :
            Unclipped(points[i]) =>
                /\ Cardinality(MomentOf(points[i]))
                      = UpToEven(NumX(points[i])) * UpToEven(NumZ(points[i]))
                /\ (points[i].length = 500000000 /\ points[i].width = 300000000
                    /\ mesh = 200000000)
                      => Cardinality(MomentOf(points[i])) = 8

\* the 0.5 x 0.3 pedestal on a grid point, mesh 0.2, range unclipped
C10_Witness ==
    /\ Done
    /\ mesh = 200000000
    /\ \E i \in DOMAIN points :
          /\ points[i].length = 500000000 /\ points[i].width = 300000000
          /\ points[i].x \in Range(xLines) /\ points[i].z \in Range(zLines)
          /\ Unclipped(points[i])
          /\ Cardinality(MomentOf(points[i])) = 8
(***************************************************************************)
(* Helpers of the export properties                                        *)
(***************************************************************************)
\* the lines that open or close a section of the export
Headers ==
    {"JOINT COORDINATES", "ELEMENT INCIDENCES SHELL", "START GROUP DEFINITION",
     "ELEMENT", "END GROUP DEFINITION", "ELEMENT PROPERTY", "MEMBER INCIDENCES",
     "DEFINE MATERIAL START", "MEMBER PROPERTY", "FINISH"}

HasLine(text, h) == \E i \in DOMAIN text : text[i] = h

FirstIndex(text, h) ==
    CHOOSE i \in DOMAIN text : text[i] = h /\ \A j \in 1..(i - 1) : text[j] # h

\* the lines after the header h up to the next header
BlockAfter(text, h) ==
    IF ~HasLine(text, h) THEN <<>>
    ELSE LET i == FirstIndex(text, h)
             j == CHOOSE n \in (i + 1)..(Len(text) + 1) :
                      /\ n = Len(text) + 1 \/ text[n] \in Headers
                      /\ \A q \in (i + 1)..(n - 1) : text[q] \notin Headers
         IN  SubSeq(text, i + 1, j - 1)

JointBlock == BlockAfter(exportText, "JOINT COORDINATES")
ElementBlock == BlockAfter(exportText, "ELEMENT INCIDENCES SHELL")
GroupBlock == BlockAfter(exportText, "ELEMENT")

(***************************************************************************)
(* C11  Line width of the joint and element blocks                         *)
(***************************************************************************)
\* C11: no line of the JOINT COORDINATES block and no line of the ELEMENT
\* INCIDENCES SHELL block is longer than 74 characters, the closing ';'
\* counted.
C11_LineWidth ==
    Done =>
        /\ \A i \in DOMAIN JointBlock : Len(JointBlock[i]) <= JOINT_CHAR_LIMIT
        /\ \A i \in DOMAIN ElementBlock : Len(ElementBlock[i]) <= JOINT_CHAR_LIMIT

(***************************************************************************)
(* C12  Line width of the group block                                      *)
(***************************************************************************)
\* C12: no line of a group definition is longer than 60 characters, the
\* trailing ' -' of a continued line counted.
C12_GroupLineWidth ==
    Done => \A i \in DOMAIN GroupBlock : Len(GroupBlock[i]) <= GROUP_CHAR_LIMIT

(***************************************************************************)
(* C13  Conditional sections of the export                                 *)
(***************************************************************************)
AnyGroup ==
    Len(groupedPlates) > 0 \/ Len(shearPlates) > 0 \/ Len(twoWayShearPlates) > 0

\* C13: the export has the START GROUP DEFINITION ... END GROUP DEFINITION
\* section iff one of the three groups is non-empty, the ELEMENT PROPERTY
\* section iff there is a plate, the MEMBER INCIDENCES section iff there is
\* a member; with no pedestal and height 0 on the mesh-aligned plan (1.2 x
\* 0.8, mesh 0.2: 7 x-lines, 5 z-lines, 35 nodes, 24 plates, no member) it
\* has no MEMBER and no GROUP section.
C13_Sections ==
    Done =>
        /\ HasLine(exportText, "START GROUP DEFINITION") <=> AnyGroup
        /\ HasLine(exportText, "END GROUP DEFINITION") <=> AnyGroup
        /\ HasLine(exportText, "ELEMENT PROPERTY") <=> Len(plates) > 0
        /\ HasLine(exportText, "MEMBER INCIDENCES") <=> Len(members) > 0
        /\ HasLine(exportText, "MEMBER PROPERTY") <=> Len(members) > 0
        /\ (points = <<>> /\ pedestalHeight = 0 /\ length = 1200000000
            /\ width = 800000000 /\ mesh = 200000000) =>
               /\ Len(xLines) = 7 /\ Len(zLines) = 5
               /\ Len(nodes) = 35 /\ Len(plates) = 24 /\ Len(members) = 0
               /\ ~HasLine(exportText, "MEMBER INCIDENCES")
               /\ ~HasLine(exportText, "MEMBER PROPERTY")
               /\ ~HasLine(exportText, "START GROUP DEFINITION")

\* the export of the plan without pedestals and with height 0
C13_Witness ==
    /\ Done
    /\ points = <<>> /\ pedestalHeight = 0
    /\ Len(nodes) = 35 /\ Len(plates) = 24
    /\ HasLine(exportText, "ELEMENT PROPERTY")
    /\ ~HasLine(exportText, "MEMBER INCIDENCES")
    /\ ~HasLine(exportText, "START GROUP DEFINITION")

(***************************************************************************)
(* C14  Material block                                                     *)
(***************************************************************************)
\* C14: every export holds the material block (DEFINE MATERIAL START ...
\* MATERIAL CONCRETE ALL, thirteen literal lines) after the incidence
\* sections and before FINISH, whether or not there are members.
C14_MaterialBlockAlways ==
    Done =>
        /\ exportText[Len(exportText)] = "FINISH"
        /\ \E i \in DOMAIN exportText :
              /\ i > FirstIndex(exportText, "ELEMENT INCIDENCES SHELL")
              /\ i + Len(materialBlock) <= Len(exportText)
              /\ SubSeq(exportText, i, i + Len(materialBlock) - 1) = materialBlock

(***************************************************************************)
(* C15  Exported member ids                                                *)
(***************************************************************************)
MemberIncidenceBlock == BlockAfter(exportText, "MEMBER INCIDENCES")
MemberPropertyBlock == BlockAfter(exportText, "MEMBER PROPERTY")

MaxPlateId ==
    IF PlateIds = {} THEN 0 ELSE CHOOSE v \in PlateIds : \A w \in PlateIds : w <= v

\* C15: the k-th member is exported with the id (last plate id) + k, which
\* is no plate id; the MEMBER INCIDENCES block is one line
\* '<id> <startNode> <endNode>;' per member and the MEMBER PROPERTY block one
\* line '<id> PRISM YD <length> ZD <width>;' per member, in member order,
\* with the length and width (to 3 decimals) of the member's pedestal.
C15_MemberIds ==
    Done =>
        /\ Len(MemberIncidenceBlock) = Len(members)
        /\ Len(MemberPropertyBlock) = Len(members)
        /\ \A k \in DOMAIN members :
              LET id == MaxPlateId + k
                  p == members[k].pointData
              IN  /\ id \notin PlateIds
                  /\ p \in Range(points)
                  /\ MemberIncidenceBlock[k]
                        = DecStr(id) \o " " \o DecStr(members[k].startNode)
                            \o " " \o DecStr(members[k].endNode) \o ";"
                  /\ MemberPropertyBlock[k]
                        = DecStr(id) \o " PRISM YD " \o round3Str(p.length)
                            \o " ZD " \o round3Str(p.width) \o ";"

\* two members of pedestals of different sizes, one size off the millimetre
C15_Witness ==
    /\ Done
    /\ Len(members) = 2
    /\ members[1].pointData.length # members[2].pointData.length
    /\ \E k \in DOMAIN members :
          round3(members[k].pointData.length) # members[k].pointData.length
    /\ Len(MemberPropertyBlock) = 2

(***************************************************************************)
(* C16  Determinism                                                        *)
(***************************************************************************)
\* the date line is the third line of the export
DATE_LINE == 3
WithoutDate(text) == [text EXCEPT ![DATE_LINE] = ""]

Reverse(t) == [i \in DOMAIN t |-> t[Len(t) + 1 - i]]

\* C17: a run after the orientation flag alone was switched leaves the grid
\* lines, nodes, members, plate ids and groups as they were and gives every
\* plate id the reverse of its former node tuple (the same four node ids).
C17_OrientationFlip ==
    [][cause = "flip" =>
          /\ (pc = "grid" /\ pc' = "mesh") => gridVars' = gridVars
          /\ (pc = "mesh" /\ pc' = "groups") =>
                /\ nodes' = nodes
                /\ members' = members
                /\ plateIdByCoord' = plateIdByCoord
                /\ Len(plates') = Len(plates)
                /\ \A k \in DOMAIN plates :
                      /\ plates'[k].id = plates[k].id
                      /\ plates'[k].nodes = Reverse(plates[k].nodes)
                      /\ Range(plates'[k].nodes) = Range(plates[k].nodes)
                      /\ plates'[k].nodes # plates[k].nodes
          /\ (pc = "groups" /\ pc' = "export") => groupVars' = groupVars]_vars

\* a run finished after a switch to "up", with plates and a member
C17_Witness ==
    /\ pc = "done"
    /\ cause = "flip"
    /\ zOrientation = "up"
    /\ Len(plates) >= 1
    /\ Len(members) >= 1
    /\ plates[1].nodes[4] = 1

(***************************************************************************)
(* C18  Pedestal ids                                                       *)
(***************************************************************************)
\* C18: after any sequence of manual adds, surface clicks, drags, edits,
\* deletes and delete-all, the pedestals of the list have pairwise distinct
\* integer ids >= 1.
C18_DistinctIds ==
    /\ \A i, j \in DOMAIN points : points[i].id = points[j].id => i = j
    /\ \A i \in DOMAIN points : points[i].id \in Nat \ {0}

\* a list built after a delete: its ids are not 1, 2
C18_Witness ==
    /\ Len(points) = 2
    /\ points[1].id = 2
    /\ points[2].id = 3

(***************************************************************************)
(* C19  Pedestals stay inside the plan                                     *)
(***************************************************************************)
\* C19: after any sequence of manual adds, surface clicks, drags, coordinate
\* edits and changes of the plan length or width, every pedestal has
\* 0 <= x <= length, 0 <= z <= width, length > 0 and width > 0.
C19_InsidePlan ==
    \A i \in DOMAIN points :
        /\ points[i].x >= 0 /\ points[i].x <= length
        /\ points[i].z >= 0 /\ points[i].z <= width
        /\ points[i].length > 0
        /\ points[i].width > 0

(***************************************************************************)
(* C20  Division of the intervals between cuts                             *)
(***************************************************************************)
\* the lines from cut a to cut b, both included
IntervalLines(lines, a, b) ==
    LET InAB(v) == v >= a /\ v <= b
    IN  SelectSeq(lines, InAB)

\* the points a + j*m, j = 1..floor((b - a)/m), more than tol inside (a, b)
InteriorPoints(a, b, m, tol) ==
    {t \in {a + j * m : j \in 1..((b - a) \div m)} : t > a + tol /\ t < b - tol}

DividedBy(lines, cuts, m, tol) ==
    \A i \in 1..(Len(cuts) - 1) :
        LET a == cuts[i]
            b == cuts[i + 1]
            seg == IntervalLines(lines, a, b)
            inner == {seg[n] : n \in 2..(Len(seg) - 1)}
        IN  /\ seg[1] = a /\ seg[Len(seg)] = b
            /\ inner = InteriorPoints(a, b, m, tol)
            /\ inner \cap Range(cuts) = {}
            /\ \A n \in 1..(Len(seg) - 2) : seg[n + 1] - seg[n] = m
            /\ seg[Len(seg)] - seg[Len(seg) - 1] <= m + tol

\* C20 as stated: between adjacent cuts a < b the lines are a, the points
\* a + j*m (j = 1..floor((b-a)/m)) strictly inside (a, b), and b; every gap
\* is at most m, every gap of an interval but the last is m, and no
\* inserted point is a cut.
C20_AsStated ==
    GridDone =>
        /\ DividedBy(xLines, xCuts(points, length), mesh, 0)
        /\ DividedBy(zLines, zCuts(points, width), mesh, 0)

\* C20 amended: the inserted points are the a + j*m more than 1e-9 inside
\* (a, b); every gap of an interval but the last is m and the last is at
\* most m + 1e-9.
C20_Divisions ==
    GridDone =>
        /\ DividedBy(xLines, xCuts(points, length), mesh, DIV_TOL)
        /\ DividedBy(zLines, zCuts(points, width), mesh, DIV_TOL)

\* an interval whose last division point is 1e-9 short of the cut and is
\* left out, and an interval with division points
C20_Witness ==
    /\ GridDone
    /\ LET cuts == xCuts(points, length)
       IN  /\ \E i \in 1..(Len(cuts) - 1) :
                 /\ (cuts[i + 1] - cuts[i]) % mesh = DIV_TOL
                 /\ cuts[i + 1] - mesh * ((cuts[i + 1] - cuts[i]) \div mesh) - cuts[i] = DIV_TOL
                 /\ (cuts[i + 1] - DIV_TOL) \notin Range(xLines)
           /\ \E i \in 1..(Len(cuts) - 1) :
                 Len(IntervalLines(xLines, cuts[i], cuts[i + 1])) > 3

(***************************************************************************)
(* C21  Node ids                                                           *)
(***************************************************************************)
\* C21: the surface node of grid position (xi, zi) has id zi*|xLines|+xi+1,
\* y = 0 and the coordinates (xLines[xi], zLines[zi]); the surface node ids
\* are 1..|xLines|*|zLines|; the pedestal node ids continue from
\* |xLines|*|zLines|+1 in the order of the pedestal list; no id is shared.
C21_NodeIds ==
    MeshBuilt =>
        LET nX == Len(xLines)
            nS == Len(xLines) * Len(zLines)
        IN  /\ \A xi \in 0..(Len(xLines) - 1), zi \in 0..(Len(zLines) - 1) :
                  LET n == nodes[zi * nX + xi + 1]
                  IN  /\ n.id = zi * nX + xi + 1
                      /\ n.type = "surface"
                      /\ n.x = xLines[xi + 1] /\ n.y = 0 /\ n.z = zLines[zi + 1]
            /\ SurfaceNodeIds = 1..nS
            /\ PedestalNodeIds = (nS + 1)..(nS + Len(members))
            /\ \A k \in DOMAIN nodes : nodes[k].id = k
            /\ \A i, j \in DOMAIN nodes : nodes[i].id = nodes[j].id => i = j
            /\ \A k \in DOMAIN members :
                  /\ members[k].endNode = nS + k
                  /\ NodeOfId(nS + k).type = "pedestal"
                  /\ NodeOfId(nS + k).x = members[k].pointData.x
                  /\ NodeOfId(nS + k).z = members[k].pointData.z
            /\ \E f \in [1..Len(members) -> DOMAIN points] :
                  /\ \A j \in 1..Len(members) : points[f[j]] = members[j].pointData
                  /\ \A i, j \in 1..Len(members) : i < j => f[i] < f[j]

\* two pedestal nodes after the surface nodes of a grid with |xLines| # |zLines|
C21_Witness ==
    /\ MeshBuilt
    /\ Len(xLines) # Len(zLines)
    /\ Len(members) = 2
    /\ members[1].pointData # members[2].pointData
    /\ Len(nodes) = Len(xLines) * Len(zLines) + 2

(***************************************************************************)
(* C22  Plate ids and corner nodes                                         *)
(***************************************************************************)
\* the node of id n is a surface node at (x, z)
SurfaceNodeAt(n, x, z) ==
    /\ n \in SurfaceNodeIds
    /\ NodeOfId(n).type = "surface"
    /\ NodeOfId(n).x = x
    /\ NodeOfId(n).z = z

\* C22: the plate of grid cell (xi, zi) has id zi*(|xLines|-1)+xi+1 and, for
\* orientation "down", the node tuple [tl, tr, br, bl] (reversed for "up");
\* its four node ids are distinct and are the surface nodes at the four
\* corners of the cell, pedestal nodes or not.
C22_PlateCorners ==
    MeshBuilt =>
        \A xi \in 0..(Len(xLines) - 2), zi \in 0..(Len(zLines) - 2) :
            LET nX == Len(xLines)
                p == plates[zi * (nX - 1) + xi + 1]
                tl == zi * nX + xi + 1
                tr == zi * nX + (xi + 1) + 1
                br == (zi + 1) * nX + (xi + 1) + 1
                bl == (zi + 1) * nX + xi + 1
            IN  /\ p.id = zi * (nX - 1) + xi + 1
                /\ zOrientation = "down" => p.nodes = <<tl, tr, br, bl>>
                /\ zOrientation = "up" => p.nodes = <<bl, br, tr, tl>>
                /\ Cardinality(Range(p.nodes)) = 4
                /\ Range(p.nodes) = {tl, tr, br, bl}
                /\ SurfaceNodeAt(tl, xLines[xi + 1], zLines[zi + 1])
                /\ SurfaceNodeAt(tr, xLines[xi + 2], zLines[zi + 1])
                /\ SurfaceNodeAt(br, xLines[xi + 2], zLines[zi + 2])
                /\ SurfaceNodeAt(bl, xLines[xi + 1], zLines[zi + 2])

\* plates in several rows, orientation "down", pedestal nodes present
C22_Witness ==
    /\ MeshBuilt
    /\ zOrientation = "down"
    /\ Len(zLines) > 2 /\ Len(xLines) > 2
    /\ Len(plates) >= 4
    /\ PedestalNodeIds # {}

NearestIndex(arr, target) ==
    IF arr = <<>> THEN -1
    ELSE (CHOOSE i \in DOMAIN arr :
              /\ \A j \in DOMAIN arr : Abs(arr[i] - target) <= Abs(arr[j] - target)
              /\ \A j \in 1..(i - 1) : Abs(arr[j] - target) > Abs(arr[i] - target)) - 1

\* floor(a / 2) and ceil(a / 2)
FloorOfHalf(a) == a \div 2
CeilOfHalf(a) == (a + 1) \div 2

\* the plate ids of the cells of [ix - nx/2, ix + nx/2) x [iz - nz/2,
\* iz + nz/2) widened by d cells and clipped to the plate grid
CellsAround(p, d) ==
    LET ix == NearestIndex(xLines, p.x)
        iz == NearestIndex(zLines, p.z)
        nx == NumX(p)
        nz == NumZ(p)
        lox == Max2(0, FloorOfHalf(2 * ix - nx) - d)
        hix == Min2(Len(xLines) - 1, CeilOfHalf(2 * ix + nx) + d)
        loz == Max2(0, FloorOfHalf(2 * iz - nz) - d)
        hiz == Min2(Len(zLines) - 1, CeilOfHalf(2 * iz + nz) + d)
    IN  {zi * (Len(xLines) - 1) + xi + 1 :
            xi \in lox..(hix - 1), zi \in loz..(hiz - 1)}

\* C24: the moment plate set of a pedestal with nearest grid indices
\* (ix, iz), nx = round(length/m), nz = round(width/m) is the set of the
\* cells with max(0, floor(ix - nx/2)) <= xi < min(|xLines|-1, ceil(ix + nx/2))
\* and max(0, floor(iz - nz/2)) <= zi < min(|zLines|-1, ceil(iz + nz/2)).
C24_MomentSet ==
    Done =>
        /\ \A i \in DOMAIN points : MomentOf(points[i]) = CellsAround(points[i], 0)
        /\ Range(groupedPlates) = UNION {CellsAround(points[i], 0) : i \in DOMAIN points}

\* a pedestal with an odd plate count whose range is clipped at the low edge
C24_Witness ==
    /\ Done
    /\ \E i \in DOMAIN points :
          /\ NumX(points[i]) % 2 = 1
          /\ 2 * NearestIndex(xLines, points[i].x) - NumX(points[i]) < 0
          /\ MomentOf(points[i]) # {}

(***************************************************************************)
(* C25  Shear plate sets of a pedestal                                     *)
(***************************************************************************)
\* Math.round(a / b), b > 0: the integer n with n - 1/2 <= a/b < n + 1/2
RoundedQuotient(a, b) ==
    CHOOSE n \in -2..2 : (2 * n - 1) * b <= 2 * a /\ 2 * a < (2 * n + 1) * b

\* C25: the one-way shear plate set of a pedestal is its unclipped moment
\* index range widened by round(t/m) cells on both ends of both axes and
\* then clipped to the plate grid; the two-way shear plate set is the same
\* with round(t/(2m)) cells.
C25_ShearSets ==
    Done =>
        LET d1 == RoundedQuotient(plateThickness, mesh)
            d2 == RoundedQuotient(plateThickness, 2 * mesh)
        IN  /\ \A i \in DOMAIN points :
                  /\ OneWayOf(points[i]) = CellsAround(points[i], d1)
                  /\ TwoWayOf(points[i]) = CellsAround(points[i], d2)
            /\ Range(shearPlates) = UNION {CellsAround(points[i], d1) : i \in DOMAIN points}
            /\ Range(twoWayShearPlates)
                  = UNION {CellsAround(points[i], d2) : i \in DOMAIN points}

\* a pedestal whose widened ranges differ and are clipped at the low edge
C25_Witness ==
    /\ Done
    /\ plateThickness > 0
    /\ \E i \in DOMAIN points :
          /\ 2 * NearestIndex(xLines, points[i].x) - NumX(points[i]) < 0
          /\ MomentOf(points[i]) # TwoWayOf(points[i])
          /\ TwoWayOf(points[i]) # OneWayOf(points[i])
          /\ OneWayOf(points[i]) # PlateIds

(***************************************************************************)
(* C26  Nearest grid line, empty axis                                      *)
(***************************************************************************)
\* targets probed on an axis: the pedestal centres, the grid lines, the
\* midpoints of consecutive grid lines and a point beyond each end
ProbeTargets(arr, centres) ==
    centres \cup Range(arr)
        \cup {arr[i] + (arr[i + 1] - arr[i]) \div 2 : i \in 1..(Len(arr) - 1)}
        \cup {arr[i] - 1 : i \in DOMAIN arr} \cup {arr[i] + 1 : i \in DOMAIN arr}

\* two indices of arr are equally near to target and no index is nearer
Tied(arr, target) ==
    \E i, j \in DOMAIN arr :
        /\ i # j
        /\ Abs(arr[i] - target) = Abs(arr[j] - target)
        /\ \A k \in DOMAIN arr : Abs(arr[i] - target) <= Abs(arr[k] - target)

\* C26: findClosestIndex returns the index with the smallest |arr[i] -
\* target|, the lowest such index on ties, and -1 for an empty array; with
\* an empty axis the classifier adds no plate to any group.
C26_ClosestIndex ==
    GridBuilt =>
        /\ \A t \in ProbeTargets(xLines, {points[i].x : i \in DOMAIN points}) :
              findClosestIndex(xLines, t) = NearestIndex(xLines, t)
        /\ \A t \in ProbeTargets(zLines, {points[i].z : i \in DOMAIN points}) :
              findClosestIndex(zLines, t) = NearestIndex(zLines, t)
        /\ \A i \in DOMAIN points : findClosestIndex(<<>>, points[i].x) = -1
        /\ classify(points, <<>>, zLines, plateIdByCoordOf(<<>>, zLines), mesh, plateThickness)
              = <<<<>>, <<>>, <<>>>>
        /\ classify(points, xLines, <<>>, plateIdByCoordOf(xLines, <<>>), mesh, plateThickness)
              = <<<<>>, <<>>, <<>>>>
        /\ classify(points, <<>>, <<>>, plateIdByCoord, mesh, plateThickness)
              = <<<<>>, <<>>, <<>>>>

\* a probed target is tied between two grid lines, and there is a pedestal
\* for the classifier to run on
C26_Witness ==
    /\ GridBuilt
    /\ points # <<>>
    /\ \E t \in ProbeTargets(xLines, {}) :
          Tied(xLines, t) /\ findClosestIndex(xLines, t) >= 0

(***************************************************************************)
(* C27  Bounding boxes                                                     *)
(***************************************************************************)
Boxes ==
    pedestalGroupBoundingBoxes(points, xLines, zLines, plateIdByCoord, mesh,
                               plateThickness, plates, nodes)

\* <<lox, hix, loz, hiz>>: the index range of pedestal p widened by d cells
\* and clipped to the plate grid; it is empty on an axis when lo >= hi
ClippedRange(p, d) ==
    LET ix == NearestIndex(xLines, p.x)
        iz == NearestIndex(zLines, p.z)
    IN  <<Max2(0, FloorOfHalf(2 * ix - NumX(p)) - d),
          Min2(Len(xLines) - 1, CeilOfHalf(2 * ix + NumX(p)) + d),
          Max2(0, FloorOfHalf(2 * iz - NumZ(p)) - d),
          Min2(Len(zLines) - 1, CeilOfHalf(2 * iz + NumZ(p)) + d)>>

NonEmptyRange(r) == r[1] < r[2] /\ r[3] < r[4]

\* the rectangle spanned by the grid lines bounding an index range
RectangleOf(r) ==
    [x |-> xLines[r[1] + 1], y |-> zLines[r[3] + 1],
     width |-> xLines[r[2] + 1] - xLines[r[1] + 1],
     height |-> zLines[r[4] + 1] - zLines[r[3] + 1]]

\* the rectangles of the pedestals with a non-empty range, in pedestal order
RECURSIVE RectanglesFrom(_, _)
RectanglesFrom(i, d) ==
    IF i > Len(points) THEN <<>>
    ELSE (IF NonEmptyRange(ClippedRange(points[i], d))
          THEN <<RectangleOf(ClippedRange(points[i], d))>> ELSE <<>>)
         \o RectanglesFrom(i + 1, d)

\* the corner positions of a set of plates
CornersOf(ids) ==
    LET corners == UNION {Range(plates[k].nodes) :
                             k \in {j \in DOMAIN plates : plates[j].id \in ids}}
    IN  {<<nodes[k].x, nodes[k].z>> : k \in {j \in DOMAIN nodes : nodes[j].id \in corners}}

\* the box is the extent of the corner positions
ExtentOf(box, ids) ==
    LET c == CornersOf(ids)
    IN  /\ \A q \in c : /\ box.x <= q[1] /\ q[1] <= box.x + box.width
                        /\ box.y <= q[2] /\ q[2] <= box.y + box.height
        /\ \E q \in c : q[1] = box.x
        /\ \E q \in c : q[1] = box.x + box.width
        /\ \E q \in c : q[2] = box.y
        /\ \E q \in c : q[2] = box.y + box.height

\* C27: the box of a set of plates is {x: minX, y: minZ, width: maxX - minX,
\* height: maxZ - minZ} over the corner nodes of the plates, and there is no
\* box for the empty set; each pedestal contributes one box per non-empty
\* group, the rectangle spanned by the grid lines that bound its clipped
\* index range.
C27_BoundingBoxes ==
    Done =>
        /\ getBoundingBoxForPlates({}, plates, nodes) = NoBox
        /\ \A ids \in {Range(groupedPlates), Range(shearPlates)}
                       \cup {TwoWayOf(points[i]) : i \in DOMAIN points} :
              ids # {} => ExtentOf(getBoundingBoxForPlates(ids, plates, nodes), ids)
        /\ Boxes.moment = RectanglesFrom(1, 0)
        /\ Boxes.oneWayShear = RectanglesFrom(1, RoundedQuotient(plateThickness, mesh))
        /\ Boxes.twoWayShear = RectanglesFrom(1, RoundedQuotient(plateThickness, 2 * mesh))

\* a pedestal with a moment box away from the origin and no one-way box
C27_Witness ==
    /\ Done
    /\ \E i \in DOMAIN points :
          /\ MomentOf(points[i]) # {}
          /\ OneWayOf(points[i]) = {}
          /\ getBoundingBoxForPlates(MomentOf(points[i]), plates, nodes).x > 0
    /\ Len(Boxes.oneWayShear) < Len(Boxes.moment)

(***************************************************************************)
(* C28  Nesting of the groups                                              *)
(***************************************************************************)
\* C28: with a positive plate thickness the two-way shear plates are among
\* the one-way shear plates and the moment plates are among the two-way
\* shear plates, for each pedestal and for the groups.
C28_Nesting ==
    (Done /\ plateThickness > 0) =>
        /\ \A i \in DOMAIN points :
              /\ MomentOf(points[i]) \subseteq TwoWayOf(points[i])
              /\ TwoWayOf(points[i]) \subseteq OneWayOf(points[i])
        /\ Range(groupedPlates) \subseteq Range(twoWayShearPlates)
        /\ Range(twoWayShearPlates) \subseteq Range(shearPlates)

\* the three groups are non-empty and differ
C28_Witness ==
    /\ Done
    /\ plateThickness > 0
    /\ groupedPlates # <<>>
    /\ Range(groupedPlates) # Range(twoWayShearPlates)
    /\ Range(twoWayShearPlates) # Range(shearPlates)

(***************************************************************************)
(* C29  Group lines keep the ids                                           *)
(***************************************************************************)
\* ids[i], ..., ids[i + n - 1] written with a blank between them
RECURSIVE Joined(_, _, _)
Joined(ids, i, n) ==
    IF n = 0 THEN ""
    ELSE IF n = 1 THEN DecStr(ids[i])
    ELSE DecStr(ids[i]) \o " " \o Joined(ids, i + 1, n - 1)

\* line k of a group holding n ids from ids[i] on: the first line opens
\* with the name, every line but the last closes with " -"
GroupLine(name, ids, i, n, k, last) ==
    (IF k = 1 THEN "_" \o name \o (IF n > 0 THEN " " ELSE "") ELSE "")
        \o Joined(ids, i, n)
        \o (IF last THEN "" ELSE " -")

\* lines k, k + 1, ... are the ids from ids[i] on, read off line by line
RECURSIVE ReadsBack(_, _, _, _, _)
ReadsBack(name, lines, ids, k, i) ==
    IF k > Len(lines) THEN i = Len(ids) + 1
    ELSE \E n \in (IF k = 1 THEN 0 ELSE 1)..(Len(ids) + 1 - i) :
            /\ lines[k] = GroupLine(name, ids, i, n, k, k = Len(lines))
            /\ ReadsBack(name, lines, ids, k + 1, i + n)

\* the lines of the three groups in the order of the export
GroupsWritten ==
    (IF Len(groupedPlates) > 0 THEN formatGroupLines("MOMENT", groupedPlates) ELSE <<>>)
        \o (IF Len(shearPlates) > 0 THEN formatGroupLines("1_WAY_SHEAR", shearPlates) ELSE <<>>)
        \o (IF Len(twoWayShearPlates) > 0
            THEN formatGroupLines("2_WAY_SHEAR", twoWayShearPlates) ELSE <<>>)

\* C29: the lines of a group lose and duplicate no id: the first line opens
\* with '_' and the group name, every line but the last ends with ' -', no
\* later line repeats the name, and the ids read off the lines in order are
\* the ids of the group; the export holds these lines for the three groups.
C29_GroupRoundTrip ==
    Done =>
        /\ ReadsBack("MOMENT", formatGroupLines("MOMENT", groupedPlates), groupedPlates, 1, 1)
        /\ ReadsBack("1_WAY_SHEAR", formatGroupLines("1_WAY_SHEAR", shearPlates),
                     shearPlates, 1, 1)
        /\ ReadsBack("2_WAY_SHEAR", formatGroupLines("2_WAY_SHEAR", twoWayShearPlates),
                     twoWayShearPlates, 1, 1)
        /\ GroupBlock = GroupsWritten

\* a group that takes more than one line
C29_Witness ==
    /\ Done
    /\ Len(formatGroupLines("1_WAY_SHEAR", shearPlates)) > 1
    /\ Len(formatGroupLines("MOMENT", groupedPlates)) = 1

(***************************************************************************)
(* C30  Pointer events                                                     *)
(***************************************************************************)
\* cursor positions tried in every state: inside the plan and off it on
\* either side
ProbeCursors == Cursors \cup {<<-1, 900000000>>, <<300000000, 200000000>>}

\* a click or a move with no drag active
NoDragCase(c) ==
    /\ onPointerMovePoints(points, 0, c, length, width) = points
    /\ LET after == onSvgClickPoints(points, 0, c, length, width)
       IN  /\ Len(after) = Len(points) + 1
           /\ SubSeq(after, 1, Len(points)) = points

\* a click or a move while pedestal id d is dragged
DragCase(c, d) ==
    /\ onSvgClickPoints(points, d, c, length, width) = points
    /\ LET after == onPointerMovePoints(points, d, c, length, width)
       IN  /\ Len(after) = Len(points)
           /\ \A i \in DOMAIN points :
                 /\ after[i].id = points[i].id
                 /\ after[i].length = points[i].length
                 /\ after[i].width = points[i].width
                 /\ points[i].id # d => after[i] = points[i]
                 /\ points[i].id = d =>
                       /\ after[i].x = Max2(0, Min2(length, c[1]))
                       /\ after[i].z = Max2(0, Min2(width, c[2]))
                       /\ 0 <= after[i].x /\ after[i].x <= length
                       /\ 0 <= after[i].z /\ after[i].z <= width

PointerHandlers ==
    \A c \in ProbeCursors :
        /\ NoDragCase(c)
        /\ \A d \in 1..MaxId : DragCase(c, d)
        /\ dragId # 0 => DragCase(c, dragId)
        /\ dragId = 0
             => /\ onPointerMovePoints(points, dragId, c, length, width) = points
                /\ onSvgClickPoints(points, dragId, c, length, width) # points

\* a step that changes the drag id is a pointer-down on a pedestal or a
\* pointer-up or pointer-leave, and leaves the pedestals alone; a step that
\* adds a pedestal during a drag is not a click: it is the manual add, which
\* clears its two inputs
PointerStep ==
    /\ dragId' # dragId
          => /\ points' = points
             /\ dragId' = 0 \/ \E i \in DOMAIN points : points[i].id = dragId'
    /\ (dragId # 0 /\ Len(points') > Len(points))
          => /\ newPointX' = 0 /\ newPointZ' = 0
             /\ points'[Len(points')].x = newPointX

\* C30: pointer-down on a pedestal sets the drag id, pointer-up or
\* pointer-leave clears it; a surface click adds a pedestal only while no
\* drag is active, a pointer move changes nothing while no drag is active,
\* and during a drag a pointer move changes only the x and z of the dragged
\* pedestal, clamped into the plan: ids, lengths, widths, the other
\* pedestals and the number of pedestals stay as they are.
C30_PointerEvents == [](PointerHandlers) /\ [][PointerStep]_vars

\* a drag has moved the second of two pedestals to the clamped cursor
C30_Witness ==
    /\ dragId # 0
    /\ Len(points) = 2
    /\ points[2].id = dragId
    /\ length = 600000000
    /\ points[2].x = length
    /\ points[1].x # points[2].x

====
